---- MODULE Spec2Model ----
(***************************************************************************)
(* Model of artiq/firmware/libproto_artiq/rpc_proto.rs: the tag iterator,  *)
(* the layout oracle (Tag::alignment, Tag::size), the decoder (recv_value, *)
(* recv_elements, recv_return) and the encoder (send_value, send_elements, *)
(* send_args), on the 32-bit target (4-byte pointers and usize, 8-byte     *)
(* slice header, 8-byte aligned u64, little-endian native order).          *)
(*                                                                         *)
(* A panic (unreachable!, expect, unwrap, assert!, slice index) is the     *)
(* outcome "panic"; an Err(..) returned through `?` is the outcome "err".  *)
(***************************************************************************)
EXTENDS Integers, Sequences, FiniteSets, TLC

\* ---------------------------------------------------------------- tag bytes
TAG_n == 110
TAG_b == 98
TAG_i == 105
TAG_I == 73
TAG_f == 102
TAG_s == 115
TAG_B == 66
TAG_A == 65
TAG_t == 116
TAG_l == 108
TAG_a == 97
TAG_r == 114
TAG_k == 107
TAG_O == 79
SEPARATOR == 58

\* panic marker of the integer-valued oracle functions
PANIC == -1

Max2(a, b) == IF a >= b THEN a ELSE b

is_power_of_two(x) == x \in {1, 2, 4, 8, 16}

\* round_up: assert!(power_of_two.is_power_of_two()); (val + max_rem) & !max_rem
round_up(val, power_of_two) ==
  IF ~is_power_of_two(power_of_two) THEN PANIC
  ELSE ((val + (power_of_two - 1)) \div power_of_two) * power_of_two

\* ------------------------------------------------------------ tag iterator
\* A TagIterator is its `data` slice: a sequence of bytes.
\* A Tag is [k |-> tag byte, it |-> sub-iterator data, n |-> arity / num_dims].
Drop(s, n) == SubSeq(s, n + 1, Len(s))
Take(s, n) == SubSeq(s, 1, n)

MkTag(k, it, n) == [k |-> k, it |-> it, n |-> n]
NoTag == MkTag(0, <<>>, 0)

ScalarBytes == {TAG_n, TAG_b, TAG_i, TAG_I, TAG_f, TAG_s, TAG_B, TAG_A, TAG_O}

RECURSIVE next(_)
RECURSIVE sub(_, _)

\* TagIterator::sub: walk `count` tags; the result is the skipped byte range.
\* Returns [st, it, rest]: st = "ok" | "panic"; rest is self.data afterwards.
RECURSIVE subwalk(_, _)
subwalk(data, count) ==
  IF count = 0 THEN [st |-> "ok", rest |-> data]
  ELSE LET r == next(data) IN
       IF r.st /= "some" THEN [st |-> "panic", rest |-> data]   \* expect("truncated tag") / inner panic
       ELSE subwalk(r.rest, count - 1)

\* mutant: the sub-iterator is not cut at the end of the children
sub_to_end(data, count) ==
  LET w == subwalk(data, count) IN
  IF w.st = "panic" THEN [st |-> "panic", it |-> <<>>, rest |-> data]
  ELSE [st |-> "ok", it |-> data, rest |-> w.rest]

sub(data, count) ==
  LET w == subwalk(data, count) IN
  IF w.st = "panic" THEN [st |-> "panic", it |-> <<>>, rest |-> data]
  ELSE [st |-> "ok", it |-> Take(data, Len(data) - Len(w.rest)), rest |-> w.rest]

\* TagIterator::next: [st, tag, rest] with st = "none" | "some" | "panic".
next(data) ==
  IF Len(data) = 0 THEN [st |-> "none", tag |-> NoTag, rest |-> data]
  ELSE LET tag_byte == data[1]
           d1 == Drop(data, 1)
           Panic == [st |-> "panic", tag |-> NoTag, rest |-> d1]
       IN
       IF tag_byte \in ScalarBytes
         THEN [st |-> "some", tag |-> MkTag(tag_byte, <<>>, 0), rest |-> d1]
       ELSE IF tag_byte \in {TAG_t, TAG_a}
         THEN IF Len(d1) = 0 THEN Panic                      \* self.data[0] out of bounds
              ELSE LET count == d1[1]
                       s == sub(Drop(d1, 1), IF tag_byte = TAG_t THEN count ELSE 1)
                   IN IF s.st = "panic" THEN Panic
                      ELSE [st |-> "some", tag |-> MkTag(tag_byte, s.it, count), rest |-> s.rest]
       ELSE IF tag_byte \in {TAG_l, TAG_r, TAG_k}
         THEN LET s == sub(d1, 1)
              IN IF s.st = "panic" THEN Panic
                 ELSE [st |-> "some", tag |-> MkTag(tag_byte, s.it, 0), rest |-> s.rest]
       ELSE Panic                                            \* unreachable!()

\* split_tag: position of the first ':' (expect), split there.
RECURSIVE position(_, _, _)
position(s, b, i) ==
  IF i > Len(s) THEN 0 ELSE IF s[i] = b THEN i ELSE position(s, b, i + 1)

split_tag(tag_bytes) ==
  LET p == position(tag_bytes, SEPARATOR, 1) IN
  IF p = 0 THEN [st |-> "panic", args |-> <<>>, ret |-> <<>>]
  ELSE [st |-> "ok", args |-> Take(tag_bytes, p - 1), ret |-> Drop(tag_bytes, p)]

\* the tags an iterator yields (Iterator::take(n).map(..)), children only
RECURSIVE children(_, _)
children(it, n) ==
  IF n = 0 THEN <<>>
  ELSE LET r == next(it) IN
       IF r.st /= "some" THEN <<>> ELSE <<r.tag>> \o children(r.rest, n - 1)

\* ------------------------------------------------------------ layout oracle
ALIGN_CSLICE == 4

RECURSIVE alignment(_)
RECURSIVE max_alignment_of(_)
\* .map(|t| t.alignment()).max(): 0 for an empty iterator, PANIC if a child panics
max_alignment_of(tags) ==
  IF Len(tags) = 0 THEN 0
  ELSE LET a == alignment(Head(tags))
           m == max_alignment_of(Tail(tags))
       IN IF a = PANIC \/ m = PANIC THEN PANIC ELSE Max2(a, m)

alignment(tag) ==
  CASE tag.k = TAG_n -> 1
    [] tag.k = TAG_b -> 1
    [] tag.k = TAG_i -> 4
    [] tag.k \in {TAG_I, TAG_f} -> 8
    [] tag.k \in {TAG_t, TAG_r} ->
         LET m == max_alignment_of(children(tag.it, IF tag.k = TAG_t THEN tag.n ELSE 3))
         IN IF m = 0 THEN PANIC ELSE m                       \* .max().unwrap()
    [] tag.k \in {TAG_B, TAG_s, TAG_A, TAG_l, TAG_a} -> ALIGN_CSLICE
    [] OTHER -> PANIC                                        \* unreachable!("unexpected tag from host")


RECURSIVE size(_)
RECURSIVE size_tuple_loop(_, _, _)
\* mutant: no tail padding
size_tuple_unpadded(tags, sz, max_alignment) ==
  IF Len(tags) = 0 THEN sz
  ELSE LET tag == Head(tags)
           al == alignment(tag)
       IN IF al = PANIC THEN PANIC
          ELSE LET ts == size(tag) IN
               IF ts = PANIC THEN PANIC
               ELSE size_tuple_loop(Tail(tags), round_up(sz, al) + ts, Max2(max_alignment, al))

\* the loop of Tag::size for Tuple, from (size, max_alignment); PANIC if a child panics
size_tuple_loop(tags, sz, max_alignment) ==
  IF Len(tags) = 0 THEN round_up(sz, max_alignment)          \* tail padding; assert fails on 0
  ELSE LET tag == Head(tags)
           al == alignment(tag)
       IN IF al = PANIC THEN PANIC
          ELSE LET ts == size(tag) IN
               IF ts = PANIC THEN PANIC
               ELSE size_tuple_loop(Tail(tags), round_up(sz, al) + ts, Max2(max_alignment, al))

size_list == 8

size(tag) ==
  CASE tag.k = TAG_n -> 0
    [] tag.k = TAG_b -> 1
    [] tag.k = TAG_i -> 4
    [] tag.k \in {TAG_I, TAG_f} -> 8
    [] tag.k \in {TAG_s, TAG_B, TAG_A} -> 8
    [] tag.k = TAG_t ->
         LET cs == children(tag.it, tag.n) IN
         IF Len(cs) < tag.n THEN PANIC                       \* expect("truncated tag")
         ELSE size_tuple_loop(cs, 0, 0)
    [] tag.k = TAG_l -> size_list
    [] tag.k = TAG_a -> 4 * (1 + tag.n)
    [] tag.k = TAG_r ->
         LET r == next(tag.it) IN
         IF r.st /= "some" THEN PANIC
         ELSE LET ts == size(r.tag) IN IF ts = PANIC THEN PANIC ELSE ts * 3
    [] OTHER -> PANIC                                        \* unreachable!()


\* ------------------------------------------------- memory, reader, allocator
\* Kernel memory is a function from the addresses written so far to bytes.
MemW(mem, addr, bytes) ==
  [a \in (DOMAIN mem) \cup (addr .. (addr + Len(bytes) - 1)) |->
     IF a >= addr /\ a < addr + Len(bytes) THEN bytes[a - addr + 1] ELSE mem[a]]

Reverse(bytes) == [i \in 1..Len(bytes) |-> bytes[Len(bytes) + 1 - i]]

\* big-endian framing of the transport, little-endian native order in memory
BE32(b) == ((b[1] * 256 + b[2]) * 256 + b[3]) * 256 + b[4]
ToBE32(v) == << (v \div 16777216) % 256, (v \div 65536) % 256, (v \div 256) % 256, v % 256 >>
LE32(v) == Reverse(ToBE32(v))

\* usize product; sizes of the bounded model stay below 2^30, larger products
\* saturate there (no heap of the model can serve them)
mul_usize(a, b) ==
  IF a = 0 \/ b = 0 THEN 0
  ELSE IF a > 1073741824 \div b THEN 1073741824 ELSE a * b

\* The state threaded through one codec call:
\*   st/err  outcome so far ("ok", "err" with the error, "panic")
\*   data    the memory cursor (*data)
\*   rd/pos  the reader's stream and position;  out/wcap  the writer's bytes and capacity
\*   mem     kernel memory;  heap/nalloc/afail  the allocator
\*   log     reader reads, writer writes and alloc calls, in order
\*   acc     the <<address, width>> of every consume_value!, in order
Fail(s, e) == [s EXCEPT !.st = "err", !.err = e]
Abort(s) == [s EXCEPT !.st = "panic"]
Ev(op, n, ok, who) == [op |-> op, n |-> n, ok |-> ok, who |-> who]

Peek(s, n) == SubSeq(s.rd, s.pos + 1, s.pos + n)

\* Read::read_exact of n bytes
read_exact(s, n) ==
  IF s.st /= "ok" THEN s
  ELSE IF s.pos + n > Len(s.rd)
    THEN Fail([s EXCEPT !.log = Append(@, Ev("read", n, FALSE, "rd"))], "read")
    ELSE [s EXCEPT !.pos = @ + n, !.log = Append(@, Ev("read", n, TRUE, "rd"))]

read_u8(s) == read_exact(s, 1)
read_u32(s) == read_exact(s, 4)
read_u64(s) == read_exact(s, 8)

\* the caller-supplied allocator: a bump allocator over HeapBase..HeapTop that
\* returns 8-aligned blocks, fails when exhausted and on its afail-th call
HeapBase == 8 * 48
HeapTop == 8 * 80

alloc(s, n, who) ==
  IF s.st /= "ok" THEN s
  ELSE IF s.nalloc + 1 = s.afail \/ n > HeapTop - s.heap
    THEN Fail([s EXCEPT !.nalloc = @ + 1, !.log = Append(@, Ev("alloc", n, FALSE, who))], "alloc")
    ELSE [s EXCEPT !.nalloc = @ + 1, !.heap = round_up(@ + n, 8),
                   !.log = Append(@, Ev("alloc", n, TRUE, who))]

\* store bytes at addr (only while the call is still running)
store(s, addr, bytes) ==
  IF s.st /= "ok" THEN s ELSE [s EXCEPT !.mem = MemW(@, addr, bytes)]

\* consume_value!($ty): align the cursor to align_of<$ty>, step over size_of<$ty>
consume_value(s, al, sz) ==
  IF s.st /= "ok" THEN s
  ELSE [s EXCEPT !.data = round_up(@, al) + sz, !.acc = Append(@, <<round_up(s.data, al), sz>>)]

\* ------------------------------------------------------------------ decoder
\* The recursion of recv_value / recv_elements is run on an explicit call stack
\* s.stk of frames (innermost first):
\*   "value"  a call recv_value(reader, tag, data, alloc) still to be made
\*   "tuple"  the Tuple loop: n children left in iterator it, x = the alignment
\*   "elems"  the recv_elements loop: n elements of type tag left, x = the
\*            caller's cursor (the loop runs on a local cursor)
\*   "range"  the Range arm: n of the three recv_value calls left
Frame(f, tag, it, n, x) == [f |-> f, tag |-> tag, it |-> it, n |-> n, x |-> x]
Push(s, fr) == IF s.st /= "ok" THEN s ELSE [s EXCEPT !.stk = <<fr>> \o @]

\* *ptr = reader.read_uN()?  for the scalar of alignment al and width n
recv_scalar(s, al, n) ==
  store(read_exact(consume_value(s, al, n), n), round_up(s.data, al), Reverse(Peek(s, n)))

\* Tag::String | Tag::Bytes | Tag::ByteArray, after the allocation at p:
\* *ptr = CSlice { p, length }; reader.read_exact(the `length` bytes at p)?
recv_slice_fill(s, ptr, length, p) ==
  store(read_exact(store(s, ptr, LE32(p) \o LE32(length)), length), p, Peek(s, length))

\* ... after let length = reader.read_u32()?
recv_slice_alloc(s, ptr, length) ==
  recv_slice_fill(alloc(s, length, "slice"), ptr, length, s.heap)

recv_slice(s) ==
  recv_slice_alloc(read_u32(consume_value(s, ALIGN_CSLICE, 8)),
                   round_up(s.data, ALIGN_CSLICE), BE32(Peek(s, 4)))

\* mutant: the result of read_exact is dropped instead of returned with `?`
recv_bulk_unchecked(s, n, storage) ==
  IF s.pos + n > Len(s.rd) THEN [read_exact(s, n) EXCEPT !.st = "ok", !.err = "none"]
  ELSE store(read_exact(s, n), storage, Peek(s, n))

\* bulk read of n bytes straight into storage
recv_bulk(s, n, storage) == store(read_exact(s, n), storage, Peek(s, n))

\* recv_elements: the bulk arms, or the loop of recv_value calls on a local cursor
recv_elements(s, tag, length, storage) ==
  IF s.st /= "ok" THEN s
  ELSE CASE tag.k = TAG_b -> recv_bulk(s, length, storage)
         [] tag.k = TAG_i -> recv_bulk(s, mul_usize(length, 4), storage)
         [] tag.k \in {TAG_I, TAG_f} -> recv_bulk(s, mul_usize(length, 8), storage)
         [] OTHER -> Push([s EXCEPT !.data = storage], Frame("elems", tag, <<>>, length, s.data))

\* for _ in 0..num_dims { let len = reader.read_u32()?; total_len *= len;
\*                        consume_value!(usize, |ptr| *ptr = len) }
\* the product is left in s.tmp
RECURSIVE recv_dims_loop(_, _, _)
recv_dims_step(s, len, num_dims, total_len) ==
  recv_dims_loop(store(consume_value(s, 4, 4), round_up(s.data, 4), LE32(len)),
                 num_dims - 1, mul_usize(total_len, len))

recv_dims_loop(s, num_dims, total_len) ==
  IF s.st /= "ok" THEN s
  ELSE IF num_dims = 0 THEN [s EXCEPT !.tmp = total_len]
  ELSE recv_dims_step(read_u32(s), BE32(Peek(s, 4)), num_dims, total_len)

\* mutant: the element storage starts right after the `elements` pointer
list_storage_offset_short(al) == round_up(4, al)

\* let storage_offset = round_up(list_size, tag.alignment())
list_storage_offset(al) == round_up(4 + 4, al)

\* Tag::List(it), after the allocation:
\* *ptr_to_list = allocation; (*allocation).length = length;
\* (*allocation).elements = storage; recv_elements(.., storage, ..)
recv_list_fill(s, ptr_to_list, length, elt, allocation, storage) ==
  recv_elements(store(store(store(s, ptr_to_list, LE32(allocation)),
                            allocation + 4, LE32(length)),
                      allocation, LE32(storage)),
                elt, length, storage)

\* ... after tag.alignment() = al and tag.size() = es
recv_list_alloc(s, ptr_to_list, length, elt, al, es) ==
  IF al = PANIC \/ es = PANIC THEN Abort(s)
  ELSE recv_list_fill(alloc(s, list_storage_offset(al) + mul_usize(es, length), "list"),
                      ptr_to_list, length, elt, s.heap, s.heap + list_storage_offset(al))

\* ... after let length = reader.read_u32()?
recv_list_len(s, ptr_to_list, length, elt) ==
  IF s.st /= "ok" THEN s
  ELSE recv_list_alloc(s, ptr_to_list, length, elt, alignment(elt), size(elt))

\* ... after let tag = it.clone().next().expect("truncated tag")
recv_list_elt(s, r) ==
  IF r.st /= "some" THEN Abort(consume_value(s, 4, 4))
  ELSE recv_list_len(read_u32(consume_value(s, 4, 4)), round_up(s.data, 4),
                     BE32(Peek(s, 4)), r.tag)

recv_list(s, tag) == recv_list_elt(s, next(tag.it))

\* the tag recv_value hands to recv_elements for an Array: line 173 passes
\* `tag`, the Array tag itself, not elt_tag
array_elements_tag(tag, elt_tag) == tag

\* Tag::Array(it, num_dims), after elt_tag.size() = es:
\* *buffer = alloc(es * total_len)?; recv_elements(..)
recv_array_alloc(s, tag, buffer, elt, es) ==
  IF es = PANIC THEN Abort(s)
  ELSE recv_elements(store(alloc(s, mul_usize(es, s.tmp), "array"), buffer, LE32(s.heap)),
                     array_elements_tag(tag, elt), s.tmp, s.heap)

\* ... after the loop over the dimensions and it.clone().next().expect(..)
recv_array_elt(s, tag, buffer, r) ==
  IF s.st /= "ok" THEN s
  ELSE IF r.st /= "some" THEN Abort(s)
  ELSE recv_array_alloc(s, tag, buffer, r.tag, size(r.tag))

recv_array(s, tag) ==
  recv_array_elt(recv_dims_loop(consume_value(s, 4, 4), tag.n, 1), tag,
                 round_up(s.data, 4), next(tag.it))

\* the Tuple and Range arms once tag.alignment() = al is known
recv_tuple(s, tag, al) ==
  IF al = PANIC THEN Abort(s)
  ELSE Push([s EXCEPT !.data = round_up(@, al)], Frame("tuple", tag, tag.it, tag.n, al))

recv_range(s, al, r) ==
  IF al = PANIC \/ r.st /= "some" THEN Abort(s)
  ELSE Push([s EXCEPT !.data = round_up(@, al)], Frame("range", r.tag, <<>>, 3, 0))

\* the `match tag` of recv_value; the recursive calls of an arm are pushed as frames
recv_match(s, tag) ==
  CASE tag.k = TAG_n -> s
    [] tag.k = TAG_b -> recv_scalar(s, 1, 1)
    [] tag.k = TAG_i -> recv_scalar(s, 4, 4)
    [] tag.k \in {TAG_I, TAG_f} -> recv_scalar(s, 8, 8)
    [] tag.k \in {TAG_s, TAG_B, TAG_A} -> recv_slice(s)
    [] tag.k = TAG_t -> recv_tuple(s, tag, alignment(tag))
    [] tag.k = TAG_l -> recv_list(s, tag)
    [] tag.k = TAG_a -> recv_array(s, tag)
    [] tag.k = TAG_r -> recv_range(s, alignment(tag), next(tag.it))
    [] OTHER -> Abort(s)                                     \* unreachable!()

\* push the call recv_value(.., r.tag, ..) on top of frame fr
recv_call(s, fr, r) ==
  IF r.st /= "some" THEN Abort(s)
  ELSE Push(Push(s, fr), Frame("value", r.tag, <<>>, 0, 0))

\* one step of the innermost frame (already popped from s.stk)
recv_frame(s, fr) ==
  CASE fr.f = "value" -> recv_match(s, fr.tag)
    [] fr.f = "tuple" ->
         \* for _ in 0..arity { let tag = it.next().expect(..); recv_value(..)? }
         \* *data = round_up_mut(*data, alignment)
         IF fr.n = 0 THEN [s EXCEPT !.data = round_up(@, fr.x)]
         ELSE recv_call(s, [fr EXCEPT !.it = next(fr.it).rest, !.n = @ - 1], next(fr.it))
    [] fr.f = "elems" ->
         \* for _ in 0..length { recv_value(reader, tag, &mut data, alloc)? }
         IF fr.n = 0 THEN [s EXCEPT !.data = fr.x]
         ELSE recv_call(s, [fr EXCEPT !.n = @ - 1], [st |-> "some", tag |-> fr.tag])
    [] OTHER ->
         \* recv_value(..)?; recv_value(..)?; recv_value(..)?
         IF fr.n = 0 THEN s
         ELSE recv_call(s, [fr EXCEPT !.n = @ - 1], [st |-> "some", tag |-> fr.tag])

\* run the frames until the outermost call returns or a `?` / panic leaves it
RECURSIVE recv_run(_)
recv_run(s) ==
  IF s.st /= "ok" \/ Len(s.stk) = 0 THEN s
  ELSE recv_run(recv_frame([s EXCEPT !.stk = Tail(@)], Head(s.stk)))

recv_value(s, tag) == recv_run(Push(s, Frame("value", tag, <<>>, 0, 0)))

\* a fresh codec state
Fresh(mem, heap, data, rd, afail, wcap) ==
  [st |-> "ok", err |-> "none", data |-> data, rd |-> rd, pos |-> 0,
   mem |-> mem, heap |-> heap, nalloc |-> 0, afail |-> afail,
   out |-> <<>>, wcap |-> wcap, log |-> <<>>, acc |-> <<>>, tmp |-> 0, fill |-> 0,
   stk |-> <<>>]

\* recv_return: parse the single top-level tag, then recv_value
recv_return_tag(s, r) == IF r.st /= "some" THEN Abort(s) ELSE recv_value(s, r.tag)

recv_return(s, tag_bytes) == recv_return_tag(s, next(tag_bytes))

\* ------------------------------------------------------------------ encoder
\* A read of an address nothing has written yields the byte s.fill
\* (an uninitialised read: the caller of the codec picks the byte).
RdB(s, a) == IF a \in DOMAIN s.mem THEN s.mem[a] ELSE s.fill
RdBytes(s, a, n) == [i \in 1..n |-> RdB(s, a + i - 1)]
U32At(s, a) == BE32(Reverse(RdBytes(s, a, 4)))

\* the address space of the model: a slice reaching past it is a fault
MemTop == 8 * 128

\* Write::write_all
write_all(s, bytes) ==
  IF s.st /= "ok" THEN s
  ELSE IF Len(s.out) + Len(bytes) > s.wcap
    THEN Fail([s EXCEPT !.log = Append(@, Ev("write", Len(bytes), FALSE, "wr"))], "write")
    ELSE [s EXCEPT !.out = @ \o bytes, !.log = Append(@, Ev("write", Len(bytes), TRUE, "wr"))]

\* write_all of the n bytes of memory at addr
write_mem(s, addr, n) ==
  IF s.st /= "ok" THEN s
  ELSE IF Len(s.out) + n > s.wcap
    THEN Fail([s EXCEPT !.log = Append(@, Ev("write", n, FALSE, "wr"))], "write")
    ELSE write_all(s, RdBytes(s, addr, n))

write_u8(s, b) == write_all(s, <<b>>)
write_u32(s, v) == write_all(s, ToBE32(v))
\* ProtoWrite::write_bytes: the u32 length, then the bytes
write_bytes(s, bytes) == write_all(write_u32(s, Len(bytes)), bytes)

\* str::from_utf8(..).is_ok() on the byte values of the model (ASCII or 0xFF)
is_utf8(bytes) == \A i \in 1..Len(bytes) : bytes[i] < 128

\* mutant: the scalar is written in memory order instead of the transport's order
send_scalar_native(s, al, n) ==
  write_all(consume_value(s, al, n), RdBytes(s, round_up(s.data, al), n))

\* writer.write_uN(*ptr) for the scalar of alignment al and width n
send_scalar(s, al, n) ==
  write_all(consume_value(s, al, n), Reverse(RdBytes(s, round_up(s.data, al), n)))

\* the bytes of a CSlice<u8> written with write_string (utf8 = TRUE) or write_bytes
send_cslice_bytes(s, bytes, utf8) ==
  IF utf8 /\ ~is_utf8(bytes) THEN Abort(s)                   \* from_utf8(..).unwrap()
  ELSE write_bytes(s, bytes)

send_cslice_len(s, base, len, utf8) ==
  IF s.st /= "ok" THEN s
  ELSE IF len > MemTop THEN Abort(s)
  ELSE send_cslice_bytes(s, RdBytes(s, base, len), utf8)

\* the CSlice<u8> at ptr
send_cslice_at(s, ptr, utf8) == send_cslice_len(s, U32At(s, ptr), U32At(s, ptr + 4), utf8)

send_slice(s, utf8) ==
  send_cslice_at(consume_value(s, ALIGN_CSLICE, 8), round_up(s.data, ALIGN_CSLICE), utf8)

\* send_elements after writer.write_u8(elt_tag.as_u8())?: the bulk arms, or the
\* loop of send_value calls on a local cursor
send_elements_body(s, elt_tag, length, data) ==
  IF s.st /= "ok" THEN s
  ELSE CASE elt_tag.k = TAG_b -> write_mem(s, data, length)
         [] elt_tag.k = TAG_i -> write_mem(s, data, mul_usize(length, 4))
         [] elt_tag.k \in {TAG_I, TAG_f} -> write_mem(s, data, mul_usize(length, 8))
         [] OTHER -> Push([s EXCEPT !.data = data], Frame("elems", elt_tag, <<>>, length, s.data))

send_elements(s, elt_tag, length, data) ==
  send_elements_body(write_u8(s, elt_tag.k), elt_tag, length, data)

\* for _ in 0..num_dims { consume_value!(u32, |len| { writer.write_u32(*len)?; total_len *= *len }) }
\* the product is left in s.tmp
RECURSIVE send_dims_loop(_, _, _)
send_dims_step(s, len, num_dims, total_len) ==
  send_dims_loop(write_u32(s, len), num_dims - 1, mul_usize(total_len, len))

send_dims_loop(s, num_dims, total_len) ==
  IF s.st /= "ok" THEN s
  ELSE IF num_dims = 0 THEN [s EXCEPT !.tmp = total_len]
  ELSE send_dims_step(consume_value(s, 4, 4), U32At(s, round_up(s.data, 4)), num_dims, total_len)

\* Tag::List(it): writer.write_u32((**ptr).length)?; it.clone().next().expect(..);
\* send_elements(writer, tag, length, (**ptr).elements)
send_list_len(s, length, elements, r) ==
  IF s.st /= "ok" THEN s
  ELSE IF r.st /= "some" THEN Abort(s)
  ELSE send_elements(s, r.tag, length, elements)

send_list_at(s, list, r) ==
  send_list_len(write_u32(s, U32At(s, list + 4)), U32At(s, list + 4), U32At(s, list), r)

send_list(s, tag) ==
  send_list_at(consume_value(s, 4, 4), U32At(s, round_up(s.data, 4)), next(tag.it))

\* Tag::Array(it, num_dims)
send_array_elements(s, elt_tag, elements) ==
  IF s.st /= "ok" THEN s ELSE send_elements(s, elt_tag, s.tmp, elements)

send_array_elt(s, tag, buffer, r) ==
  IF s.st /= "ok" THEN s
  ELSE IF r.st /= "some" THEN Abort(s)
  ELSE send_array_elements(send_dims_loop(s, tag.n, 1), r.tag, U32At(s, buffer))

send_array(s, tag) ==
  send_array_elt(consume_value(write_u8(s, tag.n), 4, 4), tag, round_up(s.data, 4), next(tag.it))

\* Tag::Range(it)
send_range(s, r) ==
  IF r.st /= "some" THEN Abort(s) ELSE Push(s, Frame("range", r.tag, <<>>, 3, 0))

\* Tag::Keyword(it): the name, then send_value on the local cursor ptr.offset(1)
send_keyword_value(s, r) ==
  IF s.st /= "ok" THEN s
  ELSE IF r.st /= "some" THEN Abort(s)
  ELSE Push(Push(s, Frame("local", NoTag, <<>>, 0, s.data)), Frame("value", r.tag, <<>>, 0, 0))

send_keyword(s, tag) ==
  send_keyword_value(send_cslice_at(consume_value(s, ALIGN_CSLICE, 8),
                                    round_up(s.data, ALIGN_CSLICE), TRUE),
                     next(tag.it))

\* Tag::Object: writer.write_u32((**ptr).id)
send_object(s) ==
  write_u32(consume_value(s, 4, 4), U32At(s, U32At(s, round_up(s.data, 4))))

\* the `match tag` of send_value, after writer.write_u8(tag.as_u8())?
send_match(s, tag) ==
  IF s.st /= "ok" THEN s
  ELSE CASE tag.k = TAG_n -> s
         [] tag.k = TAG_b -> send_scalar(s, 1, 1)
         [] tag.k = TAG_i -> send_scalar(s, 4, 4)
         [] tag.k \in {TAG_I, TAG_f} -> send_scalar(s, 8, 8)
         [] tag.k = TAG_s -> send_slice(s, TRUE)
         [] tag.k \in {TAG_B, TAG_A} -> send_slice(s, FALSE)
         [] tag.k = TAG_t -> Push(write_u8(s, tag.n), Frame("tuple", tag, tag.it, tag.n, 0))
         [] tag.k = TAG_l -> send_list(s, tag)
         [] tag.k = TAG_a -> send_array(s, tag)
         [] tag.k = TAG_r -> send_range(s, next(tag.it))
         [] tag.k = TAG_k -> send_keyword(s, tag)
         [] tag.k = TAG_O -> send_object(s)
         [] OTHER -> Abort(s)

\* the Tuple loop: let tag = it.next().expect(..);
\* max_alignment = max(max_alignment, tag.alignment()); send_value(writer, tag, data)?
send_tuple_call(s, fr, r, al) ==
  IF al = PANIC THEN Abort(s)
  ELSE Push(Push(s, [fr EXCEPT !.it = r.rest, !.n = @ - 1, !.x = Max2(@, al)]),
            Frame("value", r.tag, <<>>, 0, 0))

send_tuple_child(s, fr, r) ==
  IF r.st /= "some" THEN Abort(s) ELSE send_tuple_call(s, fr, r, alignment(r.tag))

\* one step of the innermost frame (already popped from s.stk)
send_frame(s, fr) ==
  CASE fr.f = "value" -> send_match(write_u8(s, fr.tag.k), fr.tag)
    [] fr.f = "tuple" ->
         \* after the loop: *data = round_up_const(*data, max_alignment)
         IF fr.n = 0
           THEN IF round_up(s.data, fr.x) = PANIC THEN Abort(s)
                ELSE [s EXCEPT !.data = round_up(@, fr.x)]
           ELSE send_tuple_child(s, fr, next(fr.it))
    [] fr.f = "elems" ->
         \* for _ in 0..length { send_value(writer, elt_tag, &mut data)? }
         IF fr.n = 0 THEN [s EXCEPT !.data = fr.x]
         ELSE Push(Push(s, [fr EXCEPT !.n = @ - 1]), Frame("value", fr.tag, <<>>, 0, 0))
    [] fr.f = "range" ->
         \* send_value(..)?; send_value(..)?; send_value(..)?
         IF fr.n = 0 THEN s
         ELSE Push(Push(s, [fr EXCEPT !.n = @ - 1]), Frame("value", fr.tag, <<>>, 0, 0))
    [] OTHER -> [s EXCEPT !.data = fr.x]                     \* back on the caller's cursor

RECURSIVE send_run(_)
send_run(s) ==
  IF s.st /= "ok" \/ Len(s.stk) = 0 THEN s
  ELSE send_run(send_frame([s EXCEPT !.stk = Tail(@)], Head(s.stk)))

send_value(s, tag) == send_run(Push(s, Frame("value", tag, <<>>, 0, 0)))

\* send_args: arg_ptrs is the table `data`, arg_ptrs[i+1] = *data.offset(i)
RECURSIVE send_args_loop(_, _, _, _)
send_args_step(s, r, arg_ptrs, index) ==
  IF r.st = "none" THEN s
  ELSE IF r.st = "panic" THEN Abort(s)
  ELSE IF index + 1 > Len(arg_ptrs) THEN Abort(s)            \* outside the table of the model
  ELSE send_args_loop(send_value([s EXCEPT !.data = arg_ptrs[index + 1]], r.tag),
                      r.rest, arg_ptrs, index + 1)

send_args_loop(s, args_it, arg_ptrs, index) ==
  IF s.st /= "ok" THEN s ELSE send_args_step(s, next(args_it), arg_ptrs, index)

\* mutant: the end-of-arguments byte is written before the arguments
send_args_sentinel_first(s, service, tag_bytes, arg_ptrs) ==
  IF split_tag(tag_bytes).st = "panic" THEN Abort(s)
  ELSE write_bytes(send_args_loop(write_u8(write_u32(s, service), 0),
                                  split_tag(tag_bytes).args, arg_ptrs, 0),
                   split_tag(tag_bytes).ret)

send_args(s, service, tag_bytes, arg_ptrs) ==
  IF split_tag(tag_bytes).st = "panic" THEN Abort(s)
  ELSE write_bytes(write_u8(send_args_loop(write_u32(s, service),
                                           split_tag(tag_bytes).args, arg_ptrs, 0), 0),
                   split_tag(tag_bytes).ret)


\* ------------------------------------------------------------------ inputs
MaxArity == 2      \* largest tuple arity of the generated tags
MaxDims == 2       \* largest num_dims of the generated tags
MaxLen == 2        \* largest list / string length and array dimension on the wire
MaxVal == 2        \* scalar payloads are 0..MaxVal
MaxPrefix == 6     \* truncated streams keep 0..MaxPrefix bytes
MaxAfail == 2      \* the allocator can be made to fail on call 1..MaxAfail
MaxWcap == 7       \* failing writers accept 0..MaxWcap bytes

RECURSIVE Flat(_)
Flat(ss) == IF Len(ss) = 0 THEN <<>> ELSE Head(ss) \o Flat(Tail(ss))

\* A generated tag is [b |-> its bytes, c |-> the bytes of its children].
Leaf(x) == [b |-> <<x>>, c |-> <<>>]
Comp(k, cnt, kids) ==
  LET c == Flat([i \in DOMAIN kids |-> kids[i].b]) IN [b |-> <<k>> \o cnt \o c, c |-> c]
TuplesOver(S) == UNION { { Comp(TAG_t, <<n>>, ks) : ks \in [1..n -> S] } : n \in 0..MaxArity }
ListsOver(S) == { Comp(TAG_l, <<>>, <<x>>) : x \in S }
ArraysOver(S) == { Comp(TAG_a, <<nd>>, <<x>>) : x \in S, nd \in 1..MaxDims }
RangesOver(S) == { Comp(TAG_r, <<>>, <<x>>) : x \in S }
KeywordsOver(S) == { Comp(TAG_k, <<>>, <<x>>) : x \in S }

Leaves == { Leaf(x) : x \in {TAG_n, TAG_b, TAG_i, TAG_I, TAG_f, TAG_s, TAG_B, TAG_A} }
SmallLeaves == { Leaf(x) : x \in {TAG_n, TAG_b, TAG_i, TAG_I, TAG_s} }
Depth1 == TuplesOver(SmallLeaves) \cup ListsOver(Leaves) \cup ArraysOver(Leaves) \cup RangesOver(Leaves)
Inner == { Leaf(TAG_b), Leaf(TAG_i),
           Comp(TAG_t, <<2>>, <<Leaf(TAG_b), Leaf(TAG_i)>>),
           Comp(TAG_t, <<2>>, <<Leaf(TAG_b), Leaf(TAG_I)>>),
           Comp(TAG_l, <<>>, <<Leaf(TAG_i)>>),
           Comp(TAG_a, <<1>>, <<Leaf(TAG_b)>>) }
Depth2 == TuplesOver(Inner) \cup ListsOver(Inner) \cup ArraysOver(Inner) \cup RangesOver(Inner)
\* well-formed tags without Keyword / Object
PlainTags == Leaves \cup Depth1 \cup Depth2


\* The host's marshalling of a value of type `tag` (the body recv_value reads):
\* every list, string and array dimension has length L, every scalar payload is v.
RECURSIVE Rep(_, _)
Rep(bytes, n) == IF n = 0 THEN <<>> ELSE bytes \o Rep(bytes, n - 1)
RECURSIVE Pow(_, _)
Pow(x, n) == IF n = 0 THEN 1 ELSE x * Pow(x, n - 1)

RECURSIVE HostBody(_, _, _)
RECURSIVE HostBodies(_, _, _)
HostBodies(tags, L, v) ==
  IF Len(tags) = 0 THEN <<>> ELSE HostBody(Head(tags), L, v) \o HostBodies(Tail(tags), L, v)
HostBody(tag, L, v) ==
  CASE tag.k = TAG_n -> <<>>
    [] tag.k = TAG_b -> <<v % 2>>
    [] tag.k = TAG_i -> <<0, 0, 0, v>>
    [] tag.k \in {TAG_I, TAG_f} -> <<0, 0, 0, 0, 0, 0, 0, v>>
    [] tag.k \in {TAG_s, TAG_B, TAG_A} -> ToBE32(L) \o [i \in 1..L |-> 96 + v + i]
    [] tag.k = TAG_t -> HostBodies(children(tag.it, tag.n), L, v)
    [] tag.k = TAG_l -> ToBE32(L) \o Rep(HostBody(next(tag.it).tag, L, v), L)
    [] tag.k = TAG_a -> Rep(ToBE32(L), tag.n) \o Rep(HostBody(next(tag.it).tag, L, v), Pow(L, tag.n))
    [] tag.k = TAG_r -> Rep(HostBody(next(tag.it).tag, L, v), 3)
    [] OTHER -> <<>>
HostWire(tag_bytes, L, v) == HostBody(next(tag_bytes).tag, L, v)

SlotBase(i) == 128 * i

\* Kernel memory holding a value of a type with Keyword / Object tags (the host
\* never sends these): objects have id 7, keyword names are "a", Int32 is 5,
\* lists and array dimensions have length 1.
ObjAt == 8 * 96
StrAt == ObjAt + 8
HdrAt == ObjAt + 16
ElAt == ObjAt + 32

RECURSIVE KernelValue(_)
RECURSIVE KernelValues(_)
KernelValues(tags) ==
  IF Len(tags) = 0 THEN <<>> ELSE KernelValue(Head(tags)) \o KernelValues(Tail(tags))
KernelValue(tag) ==
  CASE tag.k = TAG_O -> LE32(ObjAt)
    [] tag.k = TAG_k -> LE32(StrAt) \o LE32(1) \o KernelValue(next(tag.it).tag)
    [] tag.k = TAG_i -> LE32(5)
    [] tag.k = TAG_t -> KernelValues(children(tag.it, tag.n))
    [] tag.k = TAG_l -> LE32(HdrAt)
    [] tag.k = TAG_a -> LE32(ElAt) \o Rep(LE32(1), tag.n)
    [] tag.k = TAG_r -> Rep(KernelValue(next(tag.it).tag), 3)
    [] OTHER -> <<>>

KernelImageOf(r) ==
  IF r.st /= "some" THEN <<>>
  ELSE MemW(MemW(MemW(MemW(MemW(<<>>, ObjAt, LE32(7)), StrAt, <<97>>),
                      HdrAt, LE32(ElAt) \o LE32(1)),
                 ElAt, IF r.tag.k \in {TAG_l, TAG_a} THEN KernelValue(next(r.tag.it).tag) ELSE <<>>),
            SlotBase(1), KernelValue(r.tag))
KernelImage(tb) == KernelImageOf(next(tb))

\* ------------------------------------------------------------ state machine
VARIABLES
  mem,    \* kernel memory
  heap,   \* the allocator's next free address
  slots,  \* the values decoded so far: [tag, base, end, acc]
  last    \* the last codec call: its inputs and its final codec state

vars == <<mem, heap, slots, last>>

WriterCap == 8 * 32
Services == {258}

Idle == [op |-> "none", tag |-> <<>>, c |-> <<>>, sib |-> <<>>, L |-> 0, slot |-> 0,
         service |-> 0, args |-> <<>>, ret |-> <<>>, ptrs |-> <<>>, keep |-> MemTop, heap |-> 0,
         nx |-> next(<<>>), sz |-> 0, al |-> 0,
         s |-> Fresh(<<>>, HeapBase, 0, <<>>, 0, 0)]

Init ==
  /\ mem = <<>>
  /\ heap = HeapBase
  /\ slots = <<>>
  /\ last = Idle

\* One RPC per behaviour: values are decoded (recv_return) while every call so far
\* returned Ok from a whole reply and a healthy allocator; a send, a layout query
\* or an iterator step ends the behaviour.
Running ==
  /\ last.s.st = "ok" /\ last.op \in {"none", "recv_return"}
  /\ last.keep = MemTop /\ last.s.afail = 0

\* tags of a first decoded value that a second one may follow
Arg1Tags == { <<TAG_i>>, <<TAG_t, 2, TAG_i, TAG_b>>, <<TAG_l, TAG_I>> }

\* tags of the second decoded value
Arg2Tags == { Leaf(TAG_i), Leaf(TAG_s),
              Comp(TAG_t, <<2>>, <<Leaf(TAG_i), Leaf(TAG_b)>>),
              Comp(TAG_l, <<>>, <<Leaf(TAG_i)>>) }

\* tags with a Keyword or an Object, at the top level and nested
KOLeaves == {Leaf(TAG_O)} \cup KeywordsOver({Leaf(TAG_i)})
KONested == TuplesOver(KOLeaves \cup {Leaf(TAG_i)}) \cup ListsOver(KOLeaves)
              \cup ArraysOver(KOLeaves) \cup RangesOver(KOLeaves)
KOTags == KOLeaves \cup { u \in KONested : \E x \in 1..Len(u.b) : u.b[x] \in {TAG_k, TAG_O} }

\* tag strings with an unknown tag byte or a truncated composite
Malformed == { <<120>>, <<TAG_t>>, <<TAG_t, 2, TAG_i>>, <<TAG_t, 1, 120>>, <<TAG_l>>,
               <<TAG_l, 120>>, <<TAG_a>>, <<TAG_a, 1>>, <<TAG_r>>, <<TAG_k>>,
               <<TAG_r, TAG_t, 1>> }

\* the stream the reader holds: the host's reply, cut after `keep` bytes
Truncated(wire, keep) == IF keep < Len(wire) THEN SubSeq(wire, 1, keep) ELSE wire

\* recv_return of the host's reply for the tag string tb into the next slot; the
\* stream may be truncated to `keep` bytes and the allocator made to fail on call `af`.
RecvReturn(tb, c, L, v, keep, af) ==
  /\ Running
  /\ last' = [Idle EXCEPT !.op = "recv_return", !.tag = tb, !.c = c, !.L = L,
                          !.slot = Len(slots) + 1, !.keep = keep, !.heap = heap,
                          !.s = recv_return(Fresh(mem, heap, SlotBase(Len(slots) + 1),
                                                  Truncated(HostWire(tb, L, v), keep), af, 0),
                                            tb)]
  /\ mem' = last'.s.mem
  /\ heap' = last'.s.heap
  /\ slots' = IF last'.s.st = "ok"
              THEN Append(slots, [tag |-> tb, base |-> SlotBase(Len(slots) + 1),
                                  end |-> last'.s.data, acc |-> last'.s.acc])
              ELSE slots

\* the replies decoded without failure: [u, v, keep, af, n] = the tag, the scalar
\* payload, the stream cut, the failing allocation, the slots decoded before
RecvOk ==
  { [u |-> u, v |-> v, keep |-> MemTop, af |-> 0, n |-> 0] :
      u \in Leaves \cup ArraysOver(Leaves), v \in 0..MaxVal }
  \cup { [u |-> u, v |-> 1, keep |-> MemTop, af |-> 0, n |-> 0] : u \in Depth1 \cup Depth2 }
  \cup { [u |-> u, v |-> 1, keep |-> MemTop, af |-> 0, n |-> 1] : u \in Arg2Tags }

\* the same with a failing reader or allocator
RecvFailing ==
  { p \in [u : Leaves \cup Depth1 \cup ListsOver(Inner), v : {1},
            keep : (0..MaxPrefix) \cup {MemTop}, af : 0..MaxAfail, n : {0}] :
      (p.keep < MemTop) /= (p.af > 0) }

\* tag strings the receive path does not allow
RecvBad ==
  [u : KOTags, v : {1}, keep : {0, MemTop}, af : {0}, n : {0}]
  \cup { [u |-> [b |-> tb, c |-> <<>>], v |-> 1, keep |-> MemTop, af |-> 0, n |-> 0] :
           tb \in Malformed }

DoRecv(P) ==
  \E p \in P, L \in 0..MaxLen :
    /\ p.n = Len(slots)
    /\ p.n = 1 => slots[1].tag \in Arg1Tags
    /\ RecvReturn(p.u.b, p.u.c, L, p.v, p.keep, p.af)

DoRecvReturn == Running /\ DoRecv(RecvOk)

DoRecvFailing == Running /\ DoRecv(RecvFailing)

DoRecvBad == Running /\ DoRecv(RecvBad)

\* send_value of the value in slot i
DoSendValue ==
  /\ Running
  /\ \E i \in 1..Len(slots), fill \in {0, 1} :
    /\ last' = [Idle EXCEPT !.op = "send_value", !.tag = slots[i].tag, !.slot = i,
                  !.s = send_value([Fresh(mem, heap, slots[i].base, <<>>, 0, WriterCap)
                                      EXCEPT !.fill = fill],
                                   next(slots[i].tag).tag)]
    /\ UNCHANGED <<mem, heap, slots>>

\* send_args with the argument tags argtags (their values at ptrs), the
\* separator sep and the return tag ret
SendArgs(service, argtags, sep, ret, ptrs, wcap, image) ==
  /\ last' = [Idle EXCEPT !.op = "send_args", !.tag = Flat(argtags) \o sep \o ret,
                !.service = service, !.args = argtags, !.ret = ret, !.ptrs = ptrs,
                !.s = send_args(Fresh(image, heap, 0, <<>>, 0, wcap),
                                service, Flat(argtags) \o sep \o ret, ptrs)]
  /\ UNCHANGED <<mem, heap, slots>>

RetTags == { <<TAG_n>>, <<TAG_l, TAG_i>> }

\* the decoded slots sent as the arguments of a call
SendDecoded ==
  { p \in [service : Services, args : {[i \in 1..Len(slots) |-> slots[i].tag]},
           sep : {<<SEPARATOR>>}, ret : RetTags, ptrs : {[i \in 1..Len(slots) |-> slots[i].base]},
           wcap : (0..MaxWcap) \cup {WriterCap}, image : {mem}] :
      p.wcap = WriterCap \/ p.ret = <<TAG_n>> }

\* a Keyword / Object argument, a malformed tag string or no ':'
RawArgs == { u.b : u \in KOTags } \cup Malformed
SendRaw ==
  { [service |-> 1, args |-> <<tb>>, sep |-> <<SEPARATOR>>, ret |-> <<TAG_n>>,
     ptrs |-> <<SlotBase(1)>>, wcap |-> wcap, image |-> KernelImage(tb)] :
      tb \in RawArgs, wcap \in {0, WriterCap} }
  \cup { [service |-> 1, args |-> <<tb>>, sep |-> <<>>, ret |-> <<>>,
          ptrs |-> <<SlotBase(1)>>, wcap |-> wcap, image |-> KernelImage(tb)] :
           tb \in Malformed \cup {<<>>, <<TAG_i>>}, wcap \in {0, WriterCap} }

DoSend(P) ==
  \E p \in P : SendArgs(p.service, p.args, p.sep, p.ret, p.ptrs, p.wcap, p.image)

DoSendArgs == Running /\ DoSend(SendDecoded)

DoSendRaw == Running /\ Len(slots) = 0 /\ DoSend(SendRaw)

\* Tag::size() and Tag::alignment() of the first tag of tb
DoLayout ==
  \E u \in PlainTags \cup KOTags :
    /\ last.op = "none"
    /\ LET tag == next(u.b).tag
       IN last' = [Idle EXCEPT !.op = "layout", !.tag = u.b, !.c = u.c,
                               !.sz = size(tag), !.al = alignment(tag)]
    /\ UNCHANGED <<mem, heap, slots>>

\* TagIterator::next on the tag u followed by the sibling tag sib
DoNext ==
  \E u \in PlainTags \cup KOTags, sib \in {<<>>, <<TAG_i>>, <<TAG_l, TAG_b>>, <<TAG_t, 1, TAG_I, TAG_s>>} :
    /\ last.op = "none"
    /\ last' = [Idle EXCEPT !.op = "next", !.tag = u.b \o sib, !.c = u.c, !.sib = sib,
                            !.nx = next(u.b \o sib)]
    /\ UNCHANGED <<mem, heap, slots>>

Next ==
  \/ DoRecvReturn
  \/ DoRecvFailing
  \/ DoRecvBad
  \/ DoSendValue
  \/ DoSendArgs
  \/ DoSendRaw
  \/ DoLayout
  \/ DoNext

Spec == Init /\ [][Next]_vars


\* ------------------------------------------------------------------ claims
LastTag == next(last.tag).tag
NoKO(tb) == \A x \in 1..Len(tb) : tb[x] \notin {TAG_k, TAG_O}
Decoded == last.op = "recv_return" /\ last.s.st = "ok"

\* C1: whenever recv_value succeeds for a tag T without Keyword/Object, starting
\* from a cursor aligned to T.alignment(), the cursor ends exactly T.size()
\* bytes past its starting position.
C1_LayoutAgreement ==
  (Decoded /\ NoKO(last.tag)) => last.s.data = SlotBase(last.slot) + size(LastTag)

\* C2: send_value reads every field at the address at which recv_value wrote
\* it (the same sequence of consume_value! accesses) and both leave the cursor
\* at the same place.
C2_SameWalk ==
  (last.op = "send_value" /\ last.s.st = "ok")
    => /\ last.s.acc = slots[last.slot].acc
       /\ last.s.data = slots[last.slot].end


\* the value of slot 1 was sent with send_value and nothing else is in memory
SentAlone == last.op = "send_value" /\ last.s.st = "ok" /\ last.slot = 1 /\ Len(slots) = 1
Redecode(stream) == recv_value(Fresh(<<>>, HeapBase, SlotBase(1), stream, 0, 0), LastTag)

\* C3 (as stated): decoding the byte stream send_value produced with recv_value
\* into a fresh buffer gives back the same memory and consumes the whole stream.
C3_RoundTrip ==
  SentAlone => LET r == Redecode(last.s.out)
               IN r.st = "ok" /\ r.pos = Len(last.s.out) /\ r.mem = mem

\* C3 (amended): for a scalar or slice tag, send_value emits the tag byte and
\* then a body; decoding that body with recv_value into a fresh buffer gives
\* back the same memory and consumes the whole body.
C3_RoundTripBody ==
  (SentAlone /\ Len(last.tag) = 1)
    => /\ Len(last.s.out) >= 1 /\ Head(last.s.out) = last.tag[1]
       /\ LET r == Redecode(Tail(last.s.out))
          IN r.st = "ok" /\ r.pos = Len(last.s.out) - 1 /\ r.mem = mem

C3_Witness ==
  /\ SentAlone /\ last.tag = <<TAG_s>> /\ Len(last.s.out) = 1 + 4 + MaxLen
  /\ Redecode(Tail(last.s.out)).mem = mem


\* the tagged encoding of the i-th argument of the last send_args, on its own
ArgOut(i) ==
  send_value(Fresh(last.s.mem, heap, last.ptrs[i], <<>>, 0, WriterCap),
             next(last.args[i]).tag).out
ArgsOut == Flat([i \in 1..Len(last.args) |-> ArgOut(i)])
SentArgs == last.op = "send_args" /\ last.s.st = "ok"

\* C4 (as stated): send_args writes the service id as a u32, the tagged
\* encoding of every argument in tag order, one 0x00 byte and then the return
\* tag bytes verbatim, with nothing else in between.
C4_Framing ==
  SentArgs => last.s.out = ToBE32(last.service) \o ArgsOut \o <<0>> \o last.ret

\* C4 (amended): ... one 0x00 byte and then the return tag as write_bytes
\* emits it: its length as a u32 followed by the bytes after the ':'.
C4_FramingLengthPrefixed ==
  SentArgs => last.s.out = ToBE32(last.service) \o ArgsOut \o <<0>>
                             \o ToBE32(Len(last.ret)) \o last.ret

C4_Witness ==
  /\ SentArgs /\ Len(last.args) = 2 /\ last.ret = <<TAG_l, TAG_i>>
  /\ last.args[1] = <<TAG_t, 2, TAG_i, TAG_b>> /\ last.args[2] = <<TAG_s>>


\* the alloc calls of the last codec call, and those made for a List / an Array
Allocs == SelectSeq(last.s.log, LAMBDA e : e.op = "alloc")
AllocsFor(who) == SelectSeq(last.s.log, LAMBDA e : e.op = "alloc" /\ e.who = who)
\* the element type T of the decoded List(T) / Array(T, ND)
EltTag == next(LastTag.it).tag
DecodedList == Decoded /\ last.tag[1] = TAG_l /\ NoKO(last.tag)

DecodedArray == Decoded /\ last.tag[1] = TAG_a /\ NoKO(last.tag)

\* C6 (as stated): decoding Array(T, ND) calls alloc once for the array, with
\* argument size(T) * (d1 * ... * dND), and reads from the stream exactly the ND
\* dimensions and the d1 * ... * dND element bodies.
C6_ArrayAllocation ==
  (DecodedArray /\ EltTag.k \in {TAG_b, TAG_i, TAG_I, TAG_f})
    => /\ Len(AllocsFor("array")) = 1
       /\ Allocs[1] = Ev("alloc", size(EltTag) * Pow(last.L, LastTag.n), TRUE, "array")
       /\ last.s.pos = 4 * LastTag.n + size(EltTag) * Pow(last.L, LastTag.n)


\* C7: TagIterator::next on a well-formed tag followed by sibling tags returns
\* that tag with a sub-iterator over exactly the bytes of its children (and the
\* arity / num_dims byte as its count), and leaves the parent at the first
\* sibling.
C7_SubIteratorBounds ==
  last.op = "next"
    => /\ last.nx.st = "some"
       /\ last.nx.tag.k = last.tag[1]
       /\ last.nx.tag.it = last.c
       /\ last.nx.tag.n = (IF last.tag[1] \in {TAG_t, TAG_a} THEN last.tag[2] ELSE 0)
       /\ last.nx.rest = last.sib
       /\ last.tag = Take(last.tag, Len(last.tag) - Len(last.sib)) \o last.nx.rest

C7_Witness ==
  /\ last.op = "next" /\ last.tag[1] = TAG_t /\ last.tag[2] = 2
  /\ last.nx.tag.it = <<TAG_t, 2, TAG_b, TAG_I, TAG_l, TAG_i>>
  /\ last.nx.rest = <<TAG_t, 1, TAG_I, TAG_s>>


\* the tuple layout as the claim states it
Kids == children(LastTag.it, LastTag.n)
RoundUpTo(x, a) == ((x + a - 1) \div a) * a
RECURSIVE Packed(_, _)
Packed(tags, running) ==
  IF Len(tags) = 0 THEN running
  ELSE Packed(Tail(tags), RoundUpTo(running, alignment(Head(tags))) + size(Head(tags)))
MaxChildAlignment == CHOOSE m \in { alignment(Kids[i]) : i \in DOMAIN Kids } :
                       \A i \in DOMAIN Kids : alignment(Kids[i]) <= m
TupleLayout == last.op = "layout" /\ last.tag[1] = TAG_t /\ last.tag[2] >= 1 /\ NoKO(last.tag)

\* C8: for Tuple(T1..Tn), n >= 1, size() is the fold of
\* running = round_up(running, alignment(Ti)) + size(Ti) from 0, rounded up to
\* the maximum child alignment; size is a multiple of alignment, alignment is
\* the maximum child alignment; Tuple(Int32, Bool) has size 8 and alignment 4.
C8_TuplePacking ==
  /\ TupleLayout
       => /\ last.sz = RoundUpTo(Packed(Kids, 0), MaxChildAlignment)
          /\ last.al = MaxChildAlignment
          /\ last.sz % last.al = 0
  /\ (last.op = "layout" /\ last.tag = <<TAG_t, 2, TAG_i, TAG_b>>) => last.sz = 8 /\ last.al = 4

C8_Witness ==
  /\ TupleLayout /\ last.tag = <<TAG_t, 2, TAG_b, TAG_t, 2, TAG_b, TAG_I>>
  /\ last.sz = 24 /\ last.al = 8


\* the events of the last call that failed
Failed == { i \in DOMAIN last.s.log : ~last.s.log[i].ok }
\* the allocator's next free address after the successful allocations of `log`
RECURSIVE HeapAfter(_, _)
HeapAfter(log, h) ==
  IF Len(log) = 0 THEN h
  ELSE HeapAfter(Tail(log), IF Head(log).op = "alloc" /\ Head(log).ok
                            THEN RoundUpTo(h + Head(log).n, 8) ELSE h)
\* what send_args writes to a writer that does not fail
FullOut ==
  send_args(Fresh(last.s.mem, heap, 0, <<>>, 0, 8 * MemTop), last.service, last.tag, last.ptrs).out

\* C9: a codec call returns Err exactly when a read, a write or an alloc failed;
\* that failure is the last thing the call did with the reader, the writer and
\* the allocator, and the error returned is that failure. After a failed write
\* send_args has written a proper prefix of its output only (no sentinel, no
\* return tag after it). Successful allocations stay allocated.
C9_FailurePropagation ==
  /\ last.s.st = "err"
       => /\ Failed = {Len(last.s.log)}
          /\ last.s.err = last.s.log[Len(last.s.log)].op
  /\ last.s.st /= "err" => Failed = {} /\ last.s.err = "none"
  /\ (last.op = "send_args" /\ last.s.st = "err")
       => /\ Len(last.s.out) < Len(FullOut)
          /\ last.s.out = Take(FullOut, Len(last.s.out))
  /\ last.op = "recv_return"
       => /\ last.s.heap = HeapAfter(last.s.log, last.heap)
          /\ heap = last.s.heap

C9_Witness ==
  /\ last.op = "recv_return" /\ last.s.st = "err" /\ last.s.err = "alloc"
  /\ Len(Allocs) = 2 /\ Allocs[1].ok /\ Allocs[1].n > 0
  /\ heap > last.heap


\* the last call met a Keyword / Object tag where it is not allowed
Disallowed ==
  \/ last.op = "recv_return" /\ ~NoKO(last.tag)
  \/ /\ last.op = "send_args" /\ Len(last.args) = 1 /\ last.ret /= <<>>
     /\ Len(last.args[1]) > 1 /\ last.args[1][1] \in {TAG_t, TAG_l, TAG_a, TAG_r}
     /\ ~NoKO(last.args[1])

\* C10 (as stated): a Keyword or Object tag on the receive path, or nested in a
\* Tuple, List, Array or Range on the send path, never lets the call return
\* normally; size() and alignment() of a Keyword or Object abort; send_args
\* with a tag string without ':' aborts.
C10_FailFast ==
  /\ Disallowed => last.s.st /= "ok"
  /\ (last.op = "send_args" /\ \A x \in 1..Len(last.tag) : last.tag[x] /= SEPARATOR)
       => last.s.st = "panic"
  /\ (last.op = "layout" /\ last.tag[1] \in {TAG_k, TAG_O}) => last.sz = PANIC /\ last.al = PANIC


\* a decoded List(T) with a scalar or slice element type was sent with send_value
SentList ==
  /\ last.op = "send_value" /\ last.s.st = "ok"
  /\ Len(last.tag) = 2 /\ last.tag[1] = TAG_l
\* the length in the list header send_value read
SentListLength == U32At(last.s, U32At(last.s, SlotBase(last.slot)) + 4)
\* the bytes of the body of one element on the wire (every string has the
\* list's length, as the host sent it)
BodyLen(k, L) ==
  CASE k = TAG_n -> 0
    [] k = TAG_b -> 1
    [] k = TAG_i -> 4
    [] k \in {TAG_I, TAG_f} -> 8
    [] OTHER -> 4 + L

\* C11 (as stated): send_value on List(T) emits 'l', the length L as a u32, the
\* element tag byte once and then the L element bodies, with no further tag
\* byte per element.
C11_ListWireFormat ==
  SentList
    => /\ Len(last.s.out) = 1 + 4 + 1 + SentListLength * BodyLen(last.tag[2], SentListLength)
       /\ SubSeq(last.s.out, 1, 6) = <<TAG_l>> \o ToBE32(SentListLength) \o <<last.tag[2]>>


\* C12 (as stated): no tag that TagIterator::next parses makes round_up's
\* assertion fail or leaves Tag::alignment() without a child alignment: size()
\* and alignment() return, and recv_value and send_value do not abort.
C12_RoundUpNeverFails ==
  /\ (last.op = "layout" /\ NoKO(last.tag)) => last.sz /= PANIC /\ last.al /= PANIC
  /\ (last.op \in {"recv_return", "send_value"} /\ NoKO(last.tag)
        /\ last.tag \notin Malformed)
       => last.s.st /= "panic"

====
